---------------------------- MODULE Spec2Model ----------------------------
(***************************************************************************)
(* A model of PDF::Reader (src/gui/pdfparser/pdfreader.cpp): the lexical   *)
(* primitives, the value parser, the object reader, the xref table loader  *)
(* and the document facade (load, getObject, find, pageCount).             *)
(*                                                                         *)
(* The buffer mData is a sequence of bytes (0..255); positions are the     *)
(* 0-based qint64 offsets of the code, so mData[pos] of the code is        *)
(* Mem(pos) here.  Bytes behind the buffer (an index >= mSize) are not     *)
(* the reader's: what a read of them yields is the variable mPast, chosen  *)
(* freely by Init, followed by NUL bytes.                                  *)
(***************************************************************************)
EXTENDS Integers, Sequences, FiniteSets, TLC

VARIABLES
    mData,          \* Reader::mData, the bytes of the buffer
    mSize,          \* Reader::mSize
    mPast,          \* the bytes that lie in memory right behind the buffer
    mXRefTable,     \* Reader::mXRefTable: object number -> XRefEntry
    mTrailerDict,   \* Reader::mTrailerDict
    mPagesCount,    \* Reader::mPagesCount
    pc,             \* "new", "walking" (inside load's /Prev loop), "loaded", "failed", "done"
    parentXrefPos,  \* load's local parentXrefPos while pc = "walking"
    err,            \* the exception that ended the last operation ("" when none)
    res,            \* what the last operation returned
    hist,           \* bookkeeping of the run: segments parsed, calls made
    doc             \* the description the buffer was written from (not read by the reader)

vars == <<mData, mSize, mPast, mXRefTable, mTrailerDict, mPagesCount, pc,
          parentXrefPos, err, res, hist, doc>>

-----------------------------------------------------------------------------
(* Bounds of the model.                                                    *)

\* Revisions of a chained document.
MaxRev == 3
\* Queries made of a loaded reader in one run.
MaxCalls == 2
\* Xref segments one load may parse before the model stops following it.
MaxSegs == 4
\* Pieces a buffer of SpecHeader is put together from.
MaxPieces == 3
\* Bytes of a free literal string body.
MaxLit == 5
\* Bytes of a free hex string body.
MaxHex == 5
\* Bytes behind the buffer that the process can still read.
MaxBehind == 40

-----------------------------------------------------------------------------
(* Bytes and text.                                                         *)

Printable ==
    << " ", "!", "\"", "#", "$", "%", "&", "'", "(", ")", "*", "+", ",", "-", ".", "/",
       "0", "1", "2", "3", "4", "5", "6", "7", "8", "9", ":", ";", "<", "=", ">", "?",
       "@", "A", "B", "C", "D", "E", "F", "G", "H", "I", "J", "K", "L", "M", "N", "O",
       "P", "Q", "R", "S", "T", "U", "V", "W", "X", "Y", "Z", "[", "\\", "]", "^", "_",
       "bq", "a", "b", "c", "d", "e", "f", "g", "h", "i", "j", "k", "l", "m", "n", "o",
       "p", "q", "r", "s", "t", "u", "v", "w", "x", "y", "z", "{", "|", "}", "~" >>

\* The ASCII code of a one-character string.
Ord(ch) ==
    CASE ch = "\t" -> 9
      [] ch = "\n" -> 10
      [] ch = "\f" -> 12
      [] ch = "\r" -> 13
      [] OTHER -> 31 + CHOOSE i \in 1..Len(Printable) : Printable[i] = ch

\* The bytes of a string literal.
B(s) == [i \in 1..Len(s) |-> Ord(SubSeq(s, i, i))]

\* The character literals of the code.
chNUL == 0
chBS == 8
chHT == 9
chLF == 10
chVT == 11
chFF == 12
chCR == 13
chSP == 32
chPercent == 37
chLPar == 40
chRPar == 41
chPlus == 43
chMinus == 45
chDot == 46
chSlash == 47
ch0 == 48
ch7 == 55
ch9 == 57
chLT == 60
chGT == 62
chA == 65
chF == 70
chR == 82
chLBr == 91
chBackslash == 92
chRBr == 93
cha == 97
chb == 98
chf == 102
chn == 110
chr == 114
cht == 116

RECURSIVE Pow(_, _)
Pow(b, e) == IF e = 0 THEN 1 ELSE b * Pow(b, e - 1)

Min(a, b) == IF a < b THEN a ELSE b

\* mData[pos] as the code reads it: no check against mSize.
Mem(pos) ==
    IF pos >= 0 /\ pos < mSize THEN mData[pos + 1]
    ELSE IF pos >= mSize /\ pos < mSize + Len(mPast) THEN mPast[pos - mSize + 1]
    ELSE chNUL

\* isspace() of the C locale.
IsSpace(c) == c \in {chSP, chHT, chLF, chVT, chFF, chCR}

IsDigit(c) == c >= ch0 /\ c <= ch9

\* strchr("()<>[]{}/%", c): the terminating NUL of the set is found too.
DelimChars == {40, 41, 60, 62, 91, 93, 123, 125, 47, 37, 0}

IsDelimChar(c) == IsSpace(c) \/ c \in DelimChars

isDelim(pos) == IsDelimChar(Mem(pos))

RECURSIVE skipSpace(_)
skipSpace(pos) ==
    IF pos < mSize /\ IsSpace(Mem(pos)) THEN skipSpace(pos + 1) ELSE pos

\* strncmp(mData + pos, str, len) == 0; the comparison stops at the first
\* byte that differs, so nothing behind it is read.
RECURSIVE StrNCmpEq(_, _, _)
StrNCmpEq(pos, str, k) ==
    IF k > Len(str) THEN TRUE
    ELSE IF Mem(pos + k - 1) # str[k] THEN FALSE
    ELSE StrNCmpEq(pos, str, k + 1)

\* The bound of indexOf's loop: i < mSize - len.
IndexOfBound(len) == mSize - len

RECURSIVE indexOf(_, _)
indexOf(str, i) ==
    IF i < IndexOfBound(Len(str))
    THEN IF StrNCmpEq(i, str, 1) THEN i ELSE indexOf(str, i + 1)
    ELSE -1

RECURSIVE IndexOfBackFrom(_, _)
IndexOfBackFrom(str, i) ==
    IF i > 0
    THEN IF StrNCmpEq(i, str, 1) THEN i ELSE IndexOfBackFrom(str, i - 1)
    ELSE -1

indexOfBack(str, from) == IndexOfBackFrom(str, from - Len(str) + 1)

\* The loop of skipCRLF runs while pos >= 0, which a position in the
\* buffer always is: it ends at the first byte that is neither LF nor CR.
RECURSIVE skipCRLF(_)
skipCRLF(pos) ==
    IF pos >= 0
    THEN IF Mem(pos) \notin {chLF, chCR} THEN pos ELSE skipCRLF(pos + 1)
    ELSE 0

compareStr(pos, str) ==
    (mSize - pos > Len(str)) /\ StrNCmpEq(pos, str, 1)

compareWord(pos, str) ==
    (mSize - pos > Len(str) + 1) /\ StrNCmpEq(pos, str, 1) /\ isDelim(pos + Len(str))

-----------------------------------------------------------------------------
(* Integer scanning: strtoul, strtoull and strtoll of the C library skip   *)
(* leading white space, take an optional sign and then decimal digits; end *)
(* is the start when no digit was found.  An unsigned 32-bit pattern is    *)
(* written as the signed integer with the same bits (the 2^32 - v strtoul  *)
(* gives for "-v" is written -v): the integers of TLC are 32 bits wide.    *)

RECURSIVE ScanDigits(_, _)
ScanDigits(pos, acc) ==
    IF IsDigit(Mem(pos)) THEN ScanDigits(pos + 1, acc * 10 + (Mem(pos) - ch0))
    ELSE [val |-> acc, end |-> pos]

RECURSIVE SkipAnySpace(_)
SkipAnySpace(pos) == IF IsSpace(Mem(pos)) THEN SkipAnySpace(pos + 1) ELSE pos

\* Whether the scan takes a sign standing at p0.
TakesSign(c) == c \in {chPlus, chMinus}

StrToIntDigits(pos, p1, neg, d) ==
    IF d.end = p1 THEN [val |-> 0, end |-> pos]
    ELSE [val |-> IF neg THEN 0 - d.val ELSE d.val, end |-> d.end]

StrToIntSigned(pos, p1, neg) == StrToIntDigits(pos, p1, neg, ScanDigits(p1, 0))

StrToIntAt(pos, p0) ==
    StrToIntSigned(pos, IF TakesSign(Mem(p0)) THEN p0 + 1 ELSE p0,
                   TakesSign(Mem(p0)) /\ Mem(p0) = chMinus)

\* [val, end]
strtoul(pos) == StrToIntAt(pos, SkipAnySpace(pos))

strtoll(pos) == strtoul(pos)

ReadUIntOf(pos, s) == [ok |-> s.end # pos, pos |-> s.end, val |-> s.val]

readUInt(pos) == ReadUIntOf(pos, strtoul(pos))

\* A double is the pair (num, den): the value num / den, den a power of ten.
ReadNumFract(pos, sign, ip, e1, fr) ==
    [ok |-> fr.end # pos, pos |-> fr.end,
     num |-> sign * (ip.val * Pow(10, fr.end - e1) + fr.val),
     den |-> Pow(10, fr.end - e1)]

ReadNumDot(pos, sign, ip, e1) ==
    ReadNumFract(pos, sign, ip, e1,
                 IF e1 # ip.end /\ IsDigit(Mem(e1)) THEN strtoll(e1)
                 ELSE [val |-> 0, end |-> e1])

ReadNumInt(pos, sign, ip) ==
    ReadNumDot(pos, sign, ip, IF Mem(ip.end) = chDot THEN ip.end + 1 ELSE ip.end)

readNum(pos) ==
    IF Mem(pos) = chMinus THEN ReadNumInt(pos, -1, strtoll(pos + 1))
    ELSE ReadNumInt(pos, 1, strtoll(pos))

-----------------------------------------------------------------------------
(* Values (pdfvalue.h).  A value is a record with a type field; a Dict is  *)
(* a function from names (byte sequences) to values.                       *)

Null == [type |-> "Null"]
Undefined == [type |-> "Undefined"]
Bool(b) == [type |-> "Bool", value |-> b]
Number(num, den) == [type |-> "Number", num |-> num, den |-> den]
Name(n) == [type |-> "Name", name |-> n]
String(data, enc) == [type |-> "String", data |-> data, enc |-> enc]
Array(items) == [type |-> "Array", items |-> items]
Dict(map) == [type |-> "Dict", map |-> map]
\* Link(objNum: quint32, genNum: quint16).
Link(objNum, genNum) == [type |-> "Link", objNum |-> objNum, genNum |-> genNum % 65536]

EmptyMap == [k \in {} |-> Undefined]

\* Dict::insert: one value per key, the last one written.
DictInsert(map, key, v) ==
    [k \in DOMAIN map \cup {key} |-> IF k = key THEN v ELSE map[k]]

\* Dict::value(key): the default-constructed Value when the key is absent.
DictValue(map, key) == IF key \in DOMAIN map THEN map[key] ELSE Undefined

\* Value::asNumber().value(): 0 for a value that is no Number; the double
\* is cut to an integer where the code assigns it to one.
AsInteger(v) ==
    IF v.type = "Number"
    THEN IF v.num >= 0 THEN v.num \div v.den ELSE 0 - ((0 - v.num) \div v.den)
    ELSE 0

\* Value::asLink(): Link(0, 0) for a value that is no Link.
AsLink(v) == IF v.type = "Link" THEN v ELSE Link(0, 0)

\* Value::asDict() / Object::dict(): the empty dictionary for any other value.
AsDictMap(v) == IF v.type = "Dict" THEN v.map ELSE EmptyMap

Ok(v, pos) == [ok |-> TRUE, val |-> v, pos |-> pos]

\* A thrown exception; partial is what the outermost readDict had already
\* inserted into its result when the exception left it.
Fail(kind, pos) == [ok |-> FALSE, err |-> kind, pos |-> pos, partial |-> EmptyMap]

-----------------------------------------------------------------------------
(* Reader::readNameString                                                  *)

RECURSIVE NameEnd(_)
NameEnd(pos) ==
    IF pos < mSize THEN (IF isDelim(pos) THEN pos ELSE NameEnd(pos + 1)) ELSE -1

NameUpTo(pos, e) ==
    IF e < 0 THEN Fail("ParseError", pos)
    ELSE Ok([i \in 1..(e - pos - 1) |-> Mem(pos + i)], e)

readNameString(pos) ==
    IF Mem(pos) # chSlash THEN Fail("ParseError", pos) ELSE NameUpTo(pos, NameEnd(pos + 1))

-----------------------------------------------------------------------------
(* Reader::readHexString                                                   *)

IsHexDigit(c) ==
    \/ (c >= ch0 /\ c <= ch9)
    \/ (c >= chA /\ c <= chF)
    \/ (c >= cha /\ c <= chf)

HexVal(c) ==
    IF c >= ch0 /\ c <= ch9 THEN c - ch0
    ELSE IF c >= chA /\ c <= chF THEN c - chA + 10
    ELSE c - cha + 10

\* A reader that takes an odd last digit for the low nibble.
HexOddLow(r) == r

\* The byte a pending high nibble r gives at the closing '>'.
HexOddByte(r) == r * 16

HexPairByte(r, c) == (r * 16 + HexVal(c)) % 256

\* The bytes ignored between the digits of a hexadecimal string.
HexIgnores(c) == c \in {chSP, chHT, chLF, chVT, chFF, chCR}

RECURSIVE HexLoop(_, _, _, _, _)

HexStep(start, pos, first, r, data, c) ==
    IF IsHexDigit(c)
    THEN IF first THEN HexLoop(start, pos + 1, FALSE, HexVal(c), data)
         ELSE HexLoop(start, pos + 1, TRUE, r, Append(data, HexPairByte(r, c)))
    ELSE IF HexIgnores(c) THEN HexLoop(start, pos + 1, first, r, data)
    ELSE IF c = chGT
    THEN Ok(String(IF first THEN data ELSE Append(data, HexOddByte(r)), "hex"), pos + 1)
    ELSE Fail("ParseError", pos)

HexLoop(start, pos, first, r, data) ==
    IF pos >= mSize THEN Fail("ParseError", start)
    ELSE HexStep(start, pos, first, r, data, Mem(pos))

readHexString(start) == HexLoop(start, start + 1, TRUE, 0, <<>>)

-----------------------------------------------------------------------------
(* Reader::readLiteralString                                               *)

IsOctDigit(c) == c >= ch0 /\ c <= ch7

\* A reader that takes a fourth digit into an octal escape.
OctalLimitFour(i) == Min(i + 4, mSize)

\* int l = qMin(i+3, mSize): the index before which an octal escape that
\* starts at i ends.
OctalLimit(i) == Min(i + 3, mSize)

\* The inner loop of the octal escape: [n, i] where i is the index it stops at.
RECURSIVE OctalScan(_, _, _)
OctalScan(i, l, n) ==
    IF i < l /\ IsOctDigit(Mem(i))
    THEN OctalScan(i + 1, l, (n * 8 + Mem(i) - ch0) % 256)
    ELSE [n |-> n, i |-> i]

\* What an escaped letter stands for.
EscapedLetter(c) ==
    CASE c = chn -> chLF
      [] c = chr -> chCR
      [] c = cht -> chHT
      [] c = chb -> chBS
      [] c = chf -> chFF

\* What an unescaped end-of-line byte appends to the string.
BareEol(c) == c

\* The nesting level after a '(' or a ')'.
LevelAfter(level, c, esc) ==
    IF esc THEN level ELSE IF c = chLPar THEN level + 1 ELSE level - 1

\* The index behind a line splice: the other end-of-line byte is taken too.
SpliceEnd(i, other) == IF i + 1 < mSize /\ Mem(i + 1) = other THEN i + 2 ELSE i + 1

RECURSIVE LitLoop(_, _, _, _, _)

LitAfterOctal(start, level, data, o) ==
    LitLoop(start, o.i, level, FALSE, Append(data, o.n))

LitStep(start, i, level, esc, data, c) ==
    CASE c = chBackslash ->
           LitLoop(start, i + 1, level, ~esc, IF esc THEN Append(data, c) ELSE data)
      [] c \in {chn, chr, cht, chb, chf} ->
           LitLoop(start, i + 1, level, FALSE,
                   Append(data, IF esc THEN EscapedLetter(c) ELSE c))
      [] IsOctDigit(c) ->
           IF esc
           THEN LitAfterOctal(start, level, data, OctalScan(i + 1, OctalLimit(i), c - ch0))
           ELSE LitLoop(start, i + 1, level, esc, Append(data, c))
      [] c \in {chLF, chCR} ->
           IF esc
           THEN LitLoop(start, SpliceEnd(i, IF c = chLF THEN chCR ELSE chLF), level,
                        FALSE, data)
           ELSE LitLoop(start, i + 1, level, FALSE, Append(data, BareEol(c)))
      [] c = chLPar ->
           LitLoop(start, i + 1, LevelAfter(level, c, esc), FALSE, Append(data, c))
      [] c = chRPar ->
           IF LevelAfter(level, c, esc) = 0
           THEN Ok(String(data, "literal"), i + 1)
           ELSE LitLoop(start, i + 1, LevelAfter(level, c, esc), FALSE, Append(data, c))
      [] OTHER ->
           LitLoop(start, i + 1, level, FALSE, Append(data, c))

LitLoop(start, i, level, esc, data) ==
    IF i >= mSize THEN Fail("ParseError", start)
    ELSE LitStep(start, i, level, esc, data, Mem(i))

readLiteralString(start) == LitLoop(start, start + 1, 1, FALSE, <<>>)

-----------------------------------------------------------------------------
(* Reader::readValue, readArray, readDict                                  *)

kwTrue == B("true")
kwFalse == B("false")
kwNull == B("null")

RECURSIVE CommentEnd(_)
CommentEnd(pos) ==
    IF pos < mSize /\ Mem(pos) \notin {chLF, chCR} THEN CommentEnd(pos + 1) ELSE pos

NoLink(pos) == [ok |-> FALSE, val |-> 0, pos |-> pos]

LookaheadR(pos, u, p2) ==
    IF Mem(p2) # chR THEN NoLink(pos) ELSE [ok |-> TRUE, val |-> u.val, pos |-> p2 + 1]

LookaheadInt(pos, u) ==
    IF ~u.ok THEN NoLink(pos) ELSE LookaheadR(pos, u, skipSpace(u.pos))

\* The second integer of "a b R" is read from a copy p of the cursor;
\* [ok, val, pos]: whether the integer and the R were found, the generation
\* number, the position behind the R.
LinkLookahead(pos) == LookaheadInt(pos, readUInt(skipSpace(pos)))

LinkOrNumber(n, pos, la) ==
    IF la.ok THEN Ok(Link(n.num \div n.den, la.val), la.pos)
    ELSE Ok(Number(n.num, n.den), pos)

\* The value and the cursor readValue leaves for a number n that ends at pos.
NumberOrLink(n, pos) ==
    IF n.num % n.den # 0 THEN Ok(Number(n.num, n.den), pos)
    ELSE LinkOrNumber(n, pos, LinkLookahead(pos))

NumberValue(n, digit) ==
    IF ~n.ok THEN Fail("ParseError", n.pos)
    ELSE IF digit THEN NumberOrLink(n, n.pos)
    ELSE Ok(Number(n.num, n.den), n.pos)

NameValue(name) == IF ~name.ok THEN name ELSE Ok(Name(name.val), name.pos)

\* The Bool value readValue returns for the word false.
BoolOfFalseWord == Bool(TRUE)

RECURSIVE readValue(_)
RECURSIVE ArrayLoop(_, _, _)
RECURSIVE DictLoop(_, _, _)

readArray(start) == ArrayLoop(start, start + 1, <<>>)

readDict(start) == DictLoop(start, start + 2, EmptyMap)

ArrayItem(start, items, v) ==
    IF ~v.ok THEN v ELSE ArrayLoop(start, v.pos, Append(items, v.val))

ArrayAt(start, pos, items) ==
    IF pos = mSize THEN Fail("ParseError", start)
    ELSE IF Mem(pos) = chRBr THEN Ok(Array(items), pos + 1)
    ELSE ArrayItem(start, items, readValue(pos))

ArrayLoop(start, pos0, items) ==
    IF pos0 >= mSize THEN Fail("ParseError", start)
    ELSE ArrayAt(start, skipSpace(pos0), items)

DictEntry(start, map, key, v) ==
    IF ~v.ok THEN [v EXCEPT !.partial = map]
    ELSE DictLoop(start, v.pos, DictInsert(map, key, v.val))

DictKey(start, map, name) ==
    IF ~name.ok THEN [name EXCEPT !.partial = map]
    ELSE DictEntry(start, map, name.val, readValue(skipSpace(name.pos)))

DictAt(start, pos, map) ==
    IF Mem(pos) = chGT /\ Mem(pos + 1) = chGT THEN Ok(Dict(map), pos + 2)
    ELSE DictKey(start, map, readNameString(pos))

DictLoop(start, pos0, map) ==
    IF pos0 >= mSize - 1 THEN [Fail("ParseError", start) EXCEPT !.partial = map]
    ELSE DictAt(start, skipSpace(pos0), map)

\* A comment byte read behind the buffer is never passed: the recursion of
\* the code does not end.
AfterComment(pos, p) == IF p = pos THEN Fail("StackOverflow", pos) ELSE readValue(p)

ValueAt(pos, c) ==
    CASE IsDigit(c) \/ c \in {chMinus, chPlus, chDot} ->
           NumberValue(readNum(pos), IsDigit(c))
      [] c = chLBr -> readArray(pos)
      [] c = chLT ->
           IF Mem(pos + 1) = chLT THEN readDict(pos) ELSE readHexString(pos)
      [] c = chSlash -> NameValue(readNameString(pos))
      [] c = chLPar -> readLiteralString(pos)
      [] c \in {cht, chf} ->
           IF compareWord(pos, kwTrue) THEN Ok(Bool(TRUE), pos + 4)
           ELSE IF compareWord(pos, kwFalse) THEN Ok(BoolOfFalseWord, pos + 5)
           ELSE Fail("ParseError", pos)
      [] c = chn ->
           IF ~compareWord(pos, kwNull) THEN Fail("ParseError", pos)
           ELSE Ok(Null, pos + 4)
      [] c = chPercent -> AfterComment(pos, skipSpace(CommentEnd(pos)))
      [] OTHER -> Fail("UnknownValueError", pos)

readValue(pos) == ValueAt(pos, Mem(pos))

-----------------------------------------------------------------------------
(* XRefTable (pdfxref.h), Object (pdfobject.h)                             *)

XRefEntry(pos, objNum, genNum, type) ==
    [pos |-> pos, objNum |-> objNum, genNum |-> genNum, type |-> type]

\* XRefTable::value(objNum) of an absent number: a default entry, pos 0.
XRefPos(table, objNum) == IF objNum \in DOMAIN table THEN table[objNum].pos ELSE 0

EmptyTable == [n \in {} |-> XRefEntry(0, 0, 0, "Free")]

\* A default-constructed Object.
EmptyObject ==
    [objNum |-> 0, genNum |-> 0, value |-> Undefined, hasStream |-> FALSE,
     streamPos |-> 0, streamLen |-> 0]

-----------------------------------------------------------------------------
(* Reader::readXRefTable                                                   *)

kwXref == B("xref")
kwTrailer == B("trailer")

\* The entry the 20-byte record at pos stands for.
XRefRecord(objNum, pos) ==
    IF Mem(pos + 17) = chn
    THEN XRefEntry(strtoul(pos).val, objNum, strtoul(pos + 11).val, "Used")
    ELSE XRefEntry(0, objNum, strtoul(pos + 11).val, "Free")

TableWith(table, objNum, e) ==
    [n \in DOMAIN table \cup {objNum} |-> IF n = objNum THEN e ELSE table[n]]

\* A reader whose table takes every record it meets, the last one read
\* staying.
XRefOverwrite(table, objNum, pos) == TableWith(table, objNum, XRefRecord(objNum, pos))

\* The table after the record at pos, read for objNum: an object number the
\* table already holds is left alone.
XRefInsert(table, objNum, pos) ==
    IF objNum \in DOMAIN table THEN table
    ELSE TableWith(table, objNum, XRefRecord(objNum, pos))

RECURSIVE XRefEntries(_, _, _, _, _)
XRefEntries(pos, i, cnt, startObjNum, table) ==
    IF i < cnt
    THEN XRefEntries(pos + 20, i + 1, cnt, startObjNum,
                     XRefInsert(table, startObjNum + i, pos))
    ELSE [pos |-> pos, table |-> table]

XRefFail(pos, table) ==
    [ok |-> FALSE, err |-> "ParseError", pos |-> pos, table |-> table]

\* One turn of the do-while loop and the turns after it: [ok, pos, table],
\* the table as the segment, or the exception, leaves it.
RECURSIVE XRefSubsections(_, _)

XRefWhile(p, table) ==
    IF compareStr(p, kwTrailer) THEN [ok |-> TRUE, pos |-> p, table |-> table]
    ELSE XRefSubsections(p, table)

XRefAfterEntries(e) == XRefWhile(skipSpace(e.pos), e.table)

\* Whether the cnt records that start at pos reach behind the memory the
\* process can read: a count of 2^31 or more, or records that end more
\* than MaxBehind bytes behind the buffer.
XRefLeavesMemory(pos, cnt) ==
    \/ cnt < 0
    \/ cnt > 0 /\ (pos > mSize + MaxBehind \/ cnt > (mSize + MaxBehind - pos) \div 20)

XRefRecords(table, s, c, pos) ==
    IF XRefLeavesMemory(pos, c.val)
    THEN [XRefFail(c.pos, table) EXCEPT !.err = "SegFault"]
    ELSE XRefAfterEntries(XRefEntries(pos, 0, c.val, s.val, table))

XRefCount(table, s, c) ==
    IF ~c.ok THEN XRefFail(c.pos, table) ELSE XRefRecords(table, s, c, skipSpace(c.pos))

XRefStart(table, s) ==
    IF ~s.ok THEN XRefFail(s.pos, table) ELSE XRefCount(table, s, readUInt(s.pos))

XRefSubsections(pos0, table) == XRefStart(table, readUInt(pos0))

XRefKeyword(pos, table) ==
    IF ~compareWord(pos, kwXref) THEN XRefFail(pos, table)
    ELSE XRefSubsections(skipSpace(pos + 4), table)

readXRefTable(pos0, table) == XRefKeyword(skipSpace(pos0), table)

-----------------------------------------------------------------------------
(* Reader::readObject, getObject                                           *)

kwObj == B("obj")
kwStream == B("stream")
kwEndstream == B("endstream")
nmLength == B("Length")

\* The position behind the end-of-line that follows the keyword stream.
StreamStart(pos) == skipCRLF(pos + Len(kwStream))

\* The position readObject looks for the body at, the generation number
\* having ended at pos.
BodyStart(pos) == skipSpace(indexOf(kwObj, pos) + 3)

\* readObject and getObject call each other through a /Length that is a
\* Link; visiting holds the offsets of the objects being read, and a Link
\* back into it is a recursion that does not end.
RECURSIVE readObject(_, _)

\* A getObject that reads at whatever offset the lookup gives.
OffsetNeverSkipped(pos) == FALSE

\* if (mXRefTable.value(objNum).pos): whether getObject leaves readObject out.
OffsetSkipped(pos) == pos = 0

\* [ok, obj, gets]: gets counts the getObject calls made on the way.
getObjectIn(objNum, genNum, visiting) ==
    IF OffsetSkipped(XRefPos(mXRefTable, objNum))
    THEN [ok |-> TRUE, obj |-> EmptyObject, gets |-> 0]
    ELSE IF XRefPos(mXRefTable, objNum) \in visiting
    THEN Fail("StackOverflow", XRefPos(mXRefTable, objNum))
    ELSE readObject(XRefPos(mXRefTable, objNum), visiting)

ObjEnd(obj, endp, gets) ==
    [ok |-> TRUE, obj |-> obj, gets |-> gets,
     pos |-> IF compareWord(endp, kwEndstream) THEN endp + Len(kwEndstream) ELSE endp]

\* res->setStream(QByteArray::fromRawData(mData + pos, len))
ObjWithStream(obj, sp, len, gets) ==
    ObjEnd([obj EXCEPT !.hasStream = TRUE, !.streamPos = sp, !.streamLen = len],
           skipSpace(sp + len), gets)

ObjLinkedLength(obj, sp, lo) ==
    IF ~lo.ok THEN lo ELSE ObjWithStream(obj, sp, AsInteger(lo.obj.value), 1 + lo.gets)

ObjLength(start, visiting, obj, sp, lv) ==
    CASE lv.type = "Number" -> ObjWithStream(obj, sp, AsInteger(lv), 0)
      [] lv.type = "Link" ->
           ObjLinkedLength(obj, sp,
                           getObjectIn(lv.objNum, lv.genNum, visiting \cup {start}))
      [] OTHER -> Fail("ParseError", sp)

ObjAfterValue(start, visiting, obj, pos) ==
    IF ~compareWord(pos, kwStream) THEN [ok |-> TRUE, obj |-> obj, gets |-> 0, pos |-> pos]
    ELSE ObjLength(start, visiting, obj, StreamStart(pos),
                   DictValue(AsDictMap(obj.value), nmLength))

ObjValue(start, visiting, n1, n2, v) ==
    IF ~v.ok THEN v
    ELSE ObjAfterValue(start, visiting,
                       [objNum |-> n1.val, genNum |-> n2.val % 65536, value |-> v.val,
                        hasStream |-> FALSE, streamPos |-> 0, streamLen |-> 0],
                       skipSpace(v.pos))

ObjGenNum(start, visiting, n1, n2) ==
    IF ~n2.ok THEN Fail("ParseError", n2.pos)
    ELSE ObjValue(start, visiting, n1, n2, readValue(BodyStart(n2.pos)))

ObjObjNum(start, visiting, n1) ==
    IF ~n1.ok THEN Fail("ParseError", n1.pos)
    ELSE ObjGenNum(start, visiting, n1, readUInt(skipSpace(n1.pos)))

readObject(start, visiting) == ObjObjNum(start, visiting, readUInt(start))

\* Reader::getObject(objNum, genNum)
getObject(objNum, genNum) == getObjectIn(objNum, genNum, {})

-----------------------------------------------------------------------------
(* Reader::find, Reader::pageCount                                         *)

nmTrailer == B("Trailer")
nmPrev == B("Prev")

\* QString::split('/', QString::SkipEmptyParts)
RECURSIVE SplitPath(_, _, _, _)
SplitPath(path, i, cur, parts) ==
    IF i > Len(path) THEN (IF cur = <<>> THEN parts ELSE Append(parts, cur))
    ELSE IF path[i] = chSlash
    THEN SplitPath(path, i + 1, <<>>, IF cur = <<>> THEN parts ELSE Append(parts, cur))
    ELSE SplitPath(path, i + 1, Append(cur, path[i]), parts)

\* A find that leaves a leading Trailer component in place.
KeepTrailer(parts) == parts

\* if (objects.first() == "Trailer") objects.removeFirst()
WithoutTrailer(parts) ==
    IF parts # <<>> /\ Head(parts) = nmTrailer THEN Tail(parts) ELSE parts

\* The components find walks.
PathObjects(path) == WithoutTrailer(SplitPath(path, 1, <<>>, <<>>))

\* The value find returns from the dictionary it has reached.
FindValue(map, val) == DictValue(map, val)

RECURSIVE FindWalk(_, _, _, _)

FindEntered(objects, i, gets, o) ==
    IF ~o.ok THEN o
    ELSE FindWalk(AsDictMap(o.obj.value), objects, i + 1, gets + 1 + o.gets)

FindLink(objects, i, gets, l) ==
    FindEntered(objects, i, gets, getObject(l.objNum, l.genNum))

\* dict = getObject(dict.value(obj).asLink()).dict() for every component
\* but the last, then dict.value(val).
FindWalk(map, objects, i, gets) ==
    IF i >= Len(objects)
    THEN [ok |-> TRUE, val |-> FindValue(map, objects[Len(objects)]), gets |-> gets]
    ELSE FindLink(objects, i, gets, AsLink(DictValue(map, objects[i])))

\* An empty list of components is a read of a list that has no element.
FindFrom(objects) ==
    IF objects = <<>> THEN Fail("EmptyList", 0)
    ELSE FindWalk(mTrailerDict, objects, 1, 0)

\* [ok, val, gets]
find(path) == FindFrom(PathObjects(path))

pathPageCount == B("/Root/Pages/Count")

\* if (mPagesCount < 0): whether pageCount computes the count.
PageCountMustCompute(n) == n < 0

-----------------------------------------------------------------------------
(* Documents.  A buffer is written from a description doc:                 *)
(*   objs  the texts of the indirect objects, in file order;               *)
(*   revs  the revisions, oldest first, each                               *)
(*           subs     its xref subsections [start, ents], an entry being   *)
(*                    [ver, gen, next]: ver the index in objs of the       *)
(*                    object the entry points at, 0 for a free entry,      *)
(*                    whose offset column then holds next;                 *)
(*           trailer  its trailer entries [key, text, val], /Prev left out;*)
(* the file is the header, the objects, the revisions (every revision but  *)
(* the oldest naming the one before it by /Prev) and the startxref of the  *)
(* newest revision.                                                        *)

RECURSIVE Dec(_)
Dec(n) == IF n < 10 THEN <<ch0 + n>> ELSE Append(Dec(n \div 10), ch0 + (n % 10))

\* A possibly negative integer as PDF writes it.
DecInt(n) == IF n < 0 THEN <<chMinus>> \o Dec(0 - n) ELSE Dec(n)

RECURSIVE Pad(_, _)
Pad(n, w) == IF w = 0 THEN <<>> ELSE Append(Pad(n \div 10, w - 1), ch0 + (n % 10))

RECURSIVE Concat(_)
Concat(ss) == IF ss = <<>> THEN <<>> ELSE Head(ss) \o Concat(Tail(ss))

txHeader == B("%PDF-1.4\n")
txXref == B("xref\n")
txTrailerOpen == B("trailer\n<< ")
txPrev == B("/Prev ")
txTrailerClose == B(" >>\n")
txStartxref == B("startxref\n")
txEof == B("\n%%EOF\n")
txUsed == B(" n \n")
txFree == B(" f \n")

\* The offset of object text number v of the file.
RECURSIVE ObjOffset(_, _)
ObjOffset(objs, v) ==
    IF v = 1 THEN Len(txHeader) ELSE ObjOffset(objs, v - 1) + Len(objs[v - 1])

BodyEnd(objs) ==
    IF objs = <<>> THEN Len(txHeader) ELSE ObjOffset(objs, Len(objs)) + Len(objs[Len(objs)])

EntryText(objs, e) ==
    IF e.ver = 0 THEN Pad(e.next, 10) \o <<chSP>> \o Pad(e.gen, 5) \o txFree
    ELSE Pad(ObjOffset(objs, e.ver), 10) \o <<chSP>> \o Pad(e.gen, 5) \o txUsed

SubText(objs, sub) ==
    Dec(sub.start) \o <<chSP>> \o Dec(Len(sub.ents)) \o <<chLF>>
    \o Concat([i \in 1..Len(sub.ents) |-> EntryText(objs, sub.ents[i])])

TrailerText(tr) ==
    Concat([i \in 1..Len(tr) |-> <<chSlash>> \o tr[i].key \o <<chSP>> \o tr[i].text \o <<chSP>>])

\* The text of one revision; prev is the offset its /Prev names, 0 for none.
RevText(objs, rev, prev) ==
    txXref \o Concat([i \in 1..Len(rev.subs) |-> SubText(objs, rev.subs[i])])
    \o txTrailerOpen \o TrailerText(rev.trailer)
    \o (IF prev = 0 THEN <<>> ELSE txPrev \o Dec(prev)) \o txTrailerClose

\* The offset at which revision k (1 the oldest) starts.
RECURSIVE RevOffset(_, _)
RevOffset(d, k) ==
    IF k = 1 THEN BodyEnd(d.objs)
    ELSE RevOffset(d, k - 1)
         + Len(RevText(d.objs, d.revs[k - 1], IF k = 2 THEN 0 ELSE RevOffset(d, k - 2)))

PrevOf(d, k) == IF k = 1 THEN 0 ELSE RevOffset(d, k - 1)

Render(d) ==
    txHeader \o Concat(d.objs)
    \o Concat([k \in 1..Len(d.revs) |-> RevText(d.objs, d.revs[k], PrevOf(d, k))])
    \o txStartxref \o Dec(RevOffset(d, Len(d.revs))) \o txEof

-----------------------------------------------------------------------------
(* Reader::load.  The /Prev loop is one step per xref segment: pc is       *)
(* "walking" between two turns of it.                                      *)

kwPdf == B("%PDF-")
kwStartxref == B("startxref")

NoErr == [kind |-> "", pos |-> 0]
Thrown(r) == [kind |-> r.err, pos |-> r.pos]

\* if (indexOf("%PDF-") != 0) throw HeaderError(0)
HeaderOk == indexOf(kwPdf, 0) = 0

\* What a step of load leaves: [ok, read, at, table, map, err]; read tells
\* whether an xref segment was parsed, at its offset, table and map what it
\* left in the table and in the dictionary handed to readDict, also when it
\* threw.
NoSegment(kind, pos) ==
    [ok |-> FALSE, read |-> FALSE, at |-> 0, table |-> mXRefTable, map |-> mTrailerDict,
     err |-> [kind |-> kind, pos |-> pos]]

SegmentDict(xrefPos, t, d) ==
    IF ~d.ok
    THEN [ok |-> FALSE, read |-> TRUE, at |-> xrefPos, table |-> t.table,
          map |-> d.partial, err |-> Thrown(d)]
    ELSE [ok |-> TRUE, read |-> TRUE, at |-> xrefPos, table |-> t.table,
          map |-> d.val.map, err |-> NoErr]

SegmentTable(xrefPos, t) ==
    IF ~t.ok
    THEN [ok |-> FALSE, read |-> TRUE, at |-> xrefPos, table |-> t.table,
          map |-> EmptyMap, err |-> Thrown(t)]
    ELSE SegmentDict(xrefPos, t, readDict(skipSpace(t.pos + Len(kwTrailer))))

\* pos = readXRefTable(xrefPos, &mXRefTable); pos = skipSpace(pos + 7); readDict(pos, &dict)
ReadSegment(xrefPos, table) == SegmentTable(xrefPos, readXRefTable(xrefPos, table))

FirstSegmentAt(x) ==
    IF ~x.ok THEN NoSegment("ParseError", x.pos) ELSE ReadSegment(x.val, mXRefTable)

StartXRefAt(startXRef) ==
    IF startXRef < 0 THEN NoSegment("ParseError", 0)
    ELSE FirstSegmentAt(readUInt(startXRef + Len(kwStartxref)))

\* load up to its /Prev loop.
FirstSegment ==
    IF ~HeaderOk THEN NoSegment("HeaderError", 0)
    ELSE StartXRefAt(indexOfBack(kwStartxref, mSize - 1))

\* A reader that folds the older trailer under the one it holds.
TrailerFolded(first, older) ==
    [k \in DOMAIN first \cup DOMAIN older |->
        IF k \in DOMAIN first THEN first[k] ELSE older[k]]

\* The trailer dictionary the reader keeps once the segment named by
\* startxref has been read into first and an older one into older.
TrailerAfterPrev(first, older) == first

\* parentXrefPos = dict.value("Prev").asNumber().value()
PrevOfTrailer(map) == AsInteger(DictValue(map, nmPrev))

LoadStep(seg, map) ==
    /\ mXRefTable' = seg.table
    /\ mTrailerDict' = map
    /\ hist' = IF seg.read THEN [hist EXCEPT !.segs = Append(@, seg.at)] ELSE hist
    /\ err' = seg.err
    /\ pc' = IF ~seg.ok THEN "failed"
             ELSE IF PrevOfTrailer(seg.map) = 0 THEN "loaded" ELSE "walking"
    /\ parentXrefPos' = IF seg.ok THEN PrevOfTrailer(seg.map) ELSE 0
    /\ res' = [op |-> "load"]
    /\ UNCHANGED <<mData, mSize, mPast, mPagesCount, doc>>

LoadFirst(seg) == LoadStep(seg, seg.map)

LoadBegin ==
    /\ pc = "new"
    /\ LoadFirst(FirstSegment)

LoadOlder(seg) == LoadStep(seg, TrailerAfterPrev(mTrailerDict, seg.map))

LoadPrev ==
    /\ pc = "walking"
    /\ Len(hist.segs) < MaxSegs
    /\ LoadOlder(ReadSegment(parentXrefPos, mXRefTable))

-----------------------------------------------------------------------------
(* The queries of a loaded reader.                                         *)

Got(objNum, o) ==
    /\ res' = [op |-> "getObject", arg |-> objNum,
               obj |-> IF o.ok THEN o.obj ELSE EmptyObject]
    /\ err' = IF o.ok THEN NoErr ELSE Thrown(o)
    /\ hist' = [hist EXCEPT !.calls = @ + 1,
                            !.gets = @ + 1 + (IF o.ok THEN o.gets ELSE 0)]
    /\ UNCHANGED <<mData, mSize, mPast, mXRefTable, mTrailerDict, mPagesCount, pc,
                   parentXrefPos, doc>>

GetObject(objNum) ==
    /\ pc = "loaded"
    /\ hist.calls < MaxCalls
    /\ Got(objNum, getObject(objNum, 0))

Found(path, f) ==
    /\ res' = [op |-> "find", arg |-> path, val |-> IF f.ok THEN f.val ELSE Undefined]
    /\ err' = IF f.ok THEN NoErr ELSE Thrown(f)
    /\ hist' = [hist EXCEPT !.calls = @ + 1, !.finds = @ + 1,
                            !.gets = @ + (IF f.ok THEN f.gets ELSE 0)]
    /\ UNCHANGED <<mData, mSize, mPast, mXRefTable, mTrailerDict, mPagesCount, pc,
                   parentXrefPos, doc>>

Find(path) ==
    /\ pc = "loaded"
    /\ hist.calls < MaxCalls
    /\ Found(path, find(path))

\* mPagesCount = find("/Root/Pages/Count").asNumber().value(); return mPagesCount.
\* The quint32 returned is written as the int of the same bits;
\* hist.pageCounts counts the calls that returned.
PageCountComputed(f) ==
    /\ mPagesCount' = IF f.ok THEN AsInteger(f.val) ELSE mPagesCount
    /\ res' = [op |-> "pageCount", computed |-> TRUE,
               val |-> IF f.ok THEN AsInteger(f.val) ELSE mPagesCount]
    /\ err' = IF f.ok THEN NoErr ELSE Thrown(f)
    /\ hist' = [hist EXCEPT !.calls = @ + 1, !.finds = @ + 1,
                            !.pageCounts = @ + (IF f.ok THEN 1 ELSE 0),
                            !.gets = @ + (IF f.ok THEN f.gets ELSE 0)]

PageCountCached ==
    /\ res' = [op |-> "pageCount", computed |-> FALSE, val |-> mPagesCount]
    /\ err' = NoErr
    /\ hist' = [hist EXCEPT !.calls = @ + 1, !.pageCounts = @ + 1]
    /\ UNCHANGED mPagesCount

PageCount ==
    /\ pc = "loaded"
    /\ hist.calls < MaxCalls
    /\ IF PageCountMustCompute(mPagesCount) THEN PageCountComputed(find(pathPageCount))
       ELSE PageCountCached
    /\ UNCHANGED <<mData, mSize, mPast, mXRefTable, mTrailerDict, pc, parentXrefPos, doc>>

-----------------------------------------------------------------------------
(* The documents of the lifecycle specification Spec: a catalog, a page    *)
(* tree, a stream and the object holding the stream's length, in one       *)
(* revision or in two, the second one replacing the page tree.             *)

txObj1 == B("1 0 obj\n<< /Type /Catalog /Pages 2 0 R >>\nendobj\n")
txPagesOpen == B("2 0 obj\n<< /Type /Pages /Count ")
txDictEndobj == B(" >>\nendobj\n")
txStreamOpen == B("3 0 obj\n<< /Length ")
txStreamKw == B(" >>\nstream")
txStreamEnd == B("\nendstream\nendobj\n")
txLenRef == B("4 0 R")
txLenOpen == B("4 0 obj\n")
txEndobj == B("\nendobj\n")

nmSize == B("Size")
nmRoot == B("Root")
nmInfo == B("Info")
nmPages == B("Pages")
nmCount == B("Count")
nmType == B("Type")
nmCatalog == B("Catalog")

PagesText(count) == txPagesOpen \o DecInt(count) \o txDictEndobj

\* A stream object: the keyword, the end-of-line eol, the payload.
StreamText(eol, payload, byLink) ==
    txStreamOpen \o (IF byLink THEN txLenRef ELSE Dec(Len(payload))) \o txStreamKw
    \o eol \o payload \o txStreamEnd

LengthText(n) == txLenOpen \o Dec(n) \o txEndobj

UsedEntry(v) == [ver |-> v, gen |-> 0, next |-> 0]
FreeEntry(g, nx) == [ver |-> 0, gen |-> g, next |-> nx]

TrSize(n) == [key |-> nmSize, text |-> Dec(n), val |-> Number(n, 1)]
TrRoot == [key |-> nmRoot, text |-> B("1 0 R"), val |-> Link(1, 0)]
TrInfo(n) == [key |-> nmInfo, text |-> <<chLPar>> \o Dec(n) \o <<chRPar>>,
              val |-> String(Dec(n), "literal")]

\* The Count values of the page trees written; an update writes Count 7.
CountVals == {42, 0, -1}

Eols == {<<chLF>>, <<chCR>>, <<chCR, chLF>>}
Payloads == {B("AB"), B("\nAB"), B("\r\nA"), B("A\nB")}

\* The dictionaries of the document, by object number, as they were written.
LifeDicts(count) ==
    [n \in {1, 2} |->
        IF n = 1
        THEN DictInsert(DictInsert(EmptyMap, nmType, Name(nmCatalog)), nmPages, Link(2, 0))
        ELSE DictInsert(DictInsert(EmptyMap, nmType, Name(nmPages)), nmCount,
                        Number(count, 1))]

LifeDoc(count, eol, payload, byLink, nrev) ==
    [objs |-> << txObj1, PagesText(count), PagesText(7),
                 StreamText(eol, payload, byLink), LengthText(Len(payload)) >>,
     revs |-> SubSeq(
        << [subs |-> << [start |-> 0,
                         ents |-> << FreeEntry(65535, 0), UsedEntry(1), UsedEntry(2),
                                     UsedEntry(4), UsedEntry(5) >>] >>,
            trailer |-> << TrSize(5), TrRoot, TrInfo(1) >>],
           [subs |-> << [start |-> 2, ents |-> << UsedEntry(3) >>] >>,
            trailer |-> << TrSize(5), TrRoot >>] >>, 1, nrev),
     dicts |-> LifeDicts(IF nrev = 1 THEN count ELSE 7),
     count |-> IF nrev = 1 THEN count ELSE 7,
     eol |-> eol, payload |-> payload, byLink |-> byLink]

\* A CR alone before a payload that starts with LF would read as one CRLF:
\* no such file is written.
LifeDocs ==
    { LifeDoc(c, e, p, l, n) : c \in CountVals,
                               e \in { x \in Eols : x # <<chCR>> },
                               p \in Payloads, l \in BOOLEAN, n \in 1..2 }
    \cup { LifeDoc(c, <<chCR>>, p, l, n) : c \in CountVals,
                               p \in { x \in Payloads : Head(x) # chLF },
                               l \in BOOLEAN, n \in 1..2 }

NoHist == [segs |-> <<>>, calls |-> 0, finds |-> 0, gets |-> 0, pageCounts |-> 0]

\* Reader::Reader() and Reader::open(data, size) up to the call of load.
Constructed(d, bytes, past) ==
    /\ doc = d
    /\ mData = bytes
    /\ mSize = Len(bytes)
    /\ mPast = past
    /\ mXRefTable = EmptyTable
    /\ mTrailerDict = EmptyMap
    /\ mPagesCount = -1
    /\ pc = "new"
    /\ parentXrefPos = 0
    /\ err = NoErr
    /\ res = [op |-> "none"]
    /\ hist = NoHist

\* The paths asked of find, each with the components it names.
PathsWalked ==
    { [path |-> pathPageCount, comps |-> <<nmRoot, nmPages, nmCount>>],
      [path |-> B("/Trailer/Root/Pages/Count"), comps |-> <<nmRoot, nmPages, nmCount>>],
      [path |-> B("/Size"), comps |-> <<nmSize>>],
      [path |-> B("Root/Type"), comps |-> <<nmRoot, nmType>>] }

Paths == { w.path : w \in PathsWalked }

Init == \E d \in LifeDocs : Constructed(d, Render(d), <<>>)

Next ==
    \/ LoadBegin
    \/ LoadPrev
    \/ \E n \in 0..5 : GetObject(n)
    \/ \E p \in Paths : Find(p)
    \/ PageCount

Spec == Init /\ [][Next]_vars

-----------------------------------------------------------------------------
(* Claims about the queries of a loaded reader (Spec).                     *)

\* The bytes of the stream view of an object.
StreamView(obj) ==
    [i \in 1..obj.streamLen |-> IF obj.streamPos + i <= mSize THEN mData[obj.streamPos + i] ELSE chNUL]

\* C7: readObject of an object whose dictionary is followed by the keyword
\* stream returns a view of exactly Length bytes that starts right behind
\* the one end-of-line after the keyword, so the view is the payload that
\* was written, a payload starting with CR or LF included, with Length
\* given directly or through a Link.
C7_StreamViewIsPayload ==
    (res.op = "getObject" /\ res.arg = 3) =>
        /\ err = NoErr
        /\ res.obj.hasStream
        /\ res.obj.streamLen = Len(doc.payload)
        /\ StreamView(res.obj) = doc.payload

\* What the claim's walk yields on the dictionaries that were written: the
\* trailer of the newest revision, then for every component but the last
\* the dictionary of the object the component links to.
RECURSIVE WalkWritten(_, _, _, _)
WalkWritten(d, map, comps, i) ==
    IF i = Len(comps) THEN map[comps[i]]
    ELSE WalkWritten(d, d.dicts[map[comps[i]].objNum], comps, i + 1)

TrailerMap(tr) ==
    [k \in { tr[i].key : i \in 1..Len(tr) } |->
        tr[CHOOSE i \in 1..Len(tr) : tr[i].key = k].val]

CompsOf(path) == (CHOOSE w \in PathsWalked : w.path = path).comps

\* C8: find(path) walks from the trailer dictionary through the objects the
\* components but the last link to and returns the last component's value;
\* find("/Root/Pages/Count") returns the Count that was written (42).
C8_FindWalksLinks ==
    res.op = "find" =>
        /\ err = NoErr
        /\ res.val = WalkWritten(doc, TrailerMap(doc.revs[Len(doc.revs)].trailer),
                                 CompsOf(res.arg), 1)

C8_Witness ==
    /\ res.op = "find"
    /\ res.arg = pathPageCount
    /\ doc.count = 42
    /\ res.val = Number(42, 1)
    /\ hist.gets = 2

\* C9: once a pageCount() call has returned, every later pageCount() call
\* returns the stored value without calling find again.
C9_LaterCallsUseCache ==
    (res.op = "pageCount" /\ err = NoErr /\ hist.pageCounts >= 2) =>
        /\ ~res.computed
        /\ hist.finds = 1

-----------------------------------------------------------------------------
(* SpecLoad: load over chains of up to MaxRev revisions.  Revision k       *)
(* writes generation k into its xref entries, so that the entries of two   *)
(* revisions for one object number differ.                                 *)

ChainUsed(v, k) == [ver |-> v, gen |-> k, next |-> 0]
ChainFree(k) == [ver |-> 0, gen |-> k, next |-> 0]

\* The xref sections a revision is written with.
ChainShapes == 1..4

ChainSubs(shape, k) ==
    CASE shape = 1 ->
           << [start |-> 0, ents |-> << ChainFree(k), ChainUsed(1, k), ChainUsed(2, k) >>] >>
      [] shape = 2 ->
           << [start |-> 2, ents |-> << ChainUsed(3, k) >>] >>
      [] shape = 3 ->
           << [start |-> 1, ents |-> << ChainUsed(1, k) >>],
              [start |-> 3, ents |-> << ChainUsed(2, k), ChainFree(k) >>] >>
      [] shape = 4 ->
           << [start |-> 2, ents |-> << ChainFree(k), ChainUsed(3, k) >>] >>

ChainTrailer(k, info) ==
    << TrSize(4 + k), TrRoot >> \o (IF info THEN << TrInfo(k) >> ELSE << >>)

\* pick[k] = <<shape, info>> for revision k.
ChainDoc(pick) ==
    [objs |-> << txObj1, PagesText(42), PagesText(7) >>,
     revs |-> [k \in DOMAIN pick |->
                 [subs |-> ChainSubs(pick[k][1], k),
                  trailer |-> ChainTrailer(k, pick[k][2])]]]

ChainDocs ==
    { ChainDoc(pick) :
        pick \in UNION { [1..n -> ChainShapes \X BOOLEAN] : n \in 1..MaxRev } }

InitLoad == \E d \in ChainDocs : Constructed(d, Render(d), <<>>)

NextLoad ==
    \/ LoadBegin
    \/ LoadPrev

SpecLoad == InitLoad /\ [][NextLoad]_vars

\* The object numbers a revision's xref section names, and the entry it
\* gives one of them.
SubNums(sub) == sub.start .. (sub.start + Len(sub.ents) - 1)

RevNums(rev) == UNION { SubNums(rev.subs[i]) : i \in 1..Len(rev.subs) }

WrittenEntry(d, n, e) ==
    IF e.ver = 0 THEN XRefEntry(0, n, e.gen, "Free")
    ELSE XRefEntry(ObjOffset(d.objs, e.ver), n, e.gen, "Used")

SubOf(rev, n) == rev.subs[CHOOSE i \in 1..Len(rev.subs) : n \in SubNums(rev.subs[i])]

EntryInSub(d, n, sub) == WrittenEntry(d, n, sub.ents[n - sub.start + 1])

RevEntry(d, k, n) == EntryInSub(d, n, SubOf(d.revs[k], n))

\* The m newest revisions, and the newest of them that names n.
NewestRevs(d, m) == (Len(d.revs) - m + 1) .. Len(d.revs)

NewestNaming(d, m, n) ==
    CHOOSE k \in NewestRevs(d, m) :
        /\ n \in RevNums(d.revs[k])
        /\ \A j \in NewestRevs(d, m) : n \in RevNums(d.revs[j]) => j <= k

\* The table the claim describes once the m newest revisions are visited.
MergedTable(d, m) ==
    [n \in UNION { RevNums(d.revs[k]) : k \in NewestRevs(d, m) } |->
        RevEntry(d, NewestNaming(d, m, n), n)]

\* C1: after every segment of the /Prev walk the table holds, for each
\* object number, the entry of the newest revision visited that defines
\* it: an older segment adds the numbers still missing and replaces
\* nothing.
C1_NewestEntryWins ==
    pc \in {"walking", "loaded"} => mXRefTable = MergedTable(doc, Len(hist.segs))

C1_Witness ==
    /\ pc = "loaded"
    /\ Len(hist.segs) = Len(doc.revs)
    /\ Len(doc.revs) >= 2
    /\ \E n \in RevNums(doc.revs[Len(doc.revs)]) \cap RevNums(doc.revs[1]) :
          /\ RevEntry(doc, 1, n) # RevEntry(doc, Len(doc.revs), n)
          /\ mXRefTable[n] = RevEntry(doc, Len(doc.revs), n)

\* The trailer dictionary of revision k as it stands in the file.
WrittenTrailer(d, k) ==
    IF k = 1 THEN TrailerMap(d.revs[1].trailer)
    ELSE [x \in DOMAIN TrailerMap(d.revs[k].trailer) \cup {nmPrev} |->
             IF x = nmPrev THEN Number(PrevOf(d, k), 1)
             ELSE TrailerMap(d.revs[k].trailer)[x]]

KeysUnder(newer, own) ==
    [x \in DOMAIN newer \cup DOMAIN own |-> IF x \in DOMAIN newer THEN newer[x] ELSE own[x]]

\* The union of the trailers of revisions k and newer, the newest value of
\* a key standing.
RECURSIVE UnionFrom(_, _)
UnionFrom(d, k) ==
    IF k = Len(d.revs) THEN WrittenTrailer(d, k)
    ELSE KeysUnder(UnionFrom(d, k + 1), WrittenTrailer(d, k))

\* C2 as stated: after load trailerDict() is the union of the trailer
\* dictionaries of every revision of the chain, the newest value of each
\* key standing.
C2_TrailerIsUnion ==
    pc = "loaded" => mTrailerDict = UnionFrom(doc, 1)

\* C2, amended: after load trailerDict() is the trailer dictionary of the
\* revision startxref names, its own /Prev included; the trailers of the
\* older revisions give the walk their /Prev and no key.
C2_TrailerIsNewest ==
    pc \in {"walking", "loaded"} => mTrailerDict = WrittenTrailer(doc, Len(doc.revs))

C2_Witness ==
    /\ pc = "loaded"
    /\ Len(hist.segs) >= 2
    /\ nmInfo \in DOMAIN UnionFrom(doc, 1)
    /\ nmInfo \notin DOMAIN mTrailerDict

-----------------------------------------------------------------------------
(* SpecHeader: load of short buffers put together from up to MaxPieces     *)
(* pieces, the signature and the startxref marker among them.              *)

HeaderPieces == { kwPdf, kwStartxref, B("1.4\n"), B("x"), B("7") }

\* What may lie behind the buffer.
HeaderPasts == { <<>>, B("7") }

HeaderBuffers ==
    { Concat(ps) : ps \in UNION { [1..n -> HeaderPieces] : n \in 0..MaxPieces } }

InitHeader ==
    \E b \in HeaderBuffers, past \in HeaderPasts :
        Constructed([kind |-> "pieces"], b, past)

NextHeader == LoadBegin

SpecHeader == InitHeader /\ [][NextHeader]_vars

BeginsWith(s, w) == Len(s) >= Len(w) /\ SubSeq(s, 1, Len(w)) = w

Contains(s, w) == \E i \in 1..(Len(s) - Len(w) + 1) : SubSeq(s, i, i + Len(w) - 1) = w

\* C10: load fails with HeaderError at 0 exactly when the buffer does not
\* begin with %PDF-; a buffer that begins with %PDF- and holds no startxref
\* fails with ParseError; no xref segment is parsed in either case.
C10_HeaderThenStartxref ==
    res.op = "load" =>
        /\ (err.kind = "HeaderError" /\ err.pos = 0) <=> (~BeginsWith(mData, kwPdf))
        /\ (BeginsWith(mData, kwPdf) /\ ~Contains(mData, kwStartxref))
              => err.kind = "ParseError"
        /\ (~BeginsWith(mData, kwPdf) \/ ~Contains(mData, kwStartxref))
              => hist.segs = <<>>

-----------------------------------------------------------------------------
(* SpecValue: readValue at the start of "a b R" and of what looks like it. *)

ReadValue ==
    /\ pc = "new"
    /\ pc' = "done"
    /\ res' = [op |-> "readValue", r |-> readValue(0)]
    /\ UNCHANGED <<mData, mSize, mPast, mXRefTable, mTrailerDict, mPagesCount,
                   parentXrefPos, err, hist, doc>>

LinkFirsts == { B("0"), B("1"), B("12") }
LinkSeps == { B(" "), B("\n"), B("  ") }
LinkSeconds == { B("2"), B("0"), B("34"), B("+2"), B("-2"), B("x"), <<>>, B("2.5") }
LinkGaps == { B(" "), <<>> }
LinkThirds == { B("R"), B("obj"), B("r"), <<>> }
txAfterValue == B("\nendobj\n")

LinkTexts ==
    { [a |-> a, sep |-> s, b |-> b, gap |-> g, r |-> r] :
        a \in LinkFirsts, s \in LinkSeps, b \in LinkSeconds, g \in LinkGaps,
        r \in LinkThirds }

LinkBytes(d) == d.a \o d.sep \o d.b \o d.gap \o d.r \o txAfterValue

InitValue == \E d \in LinkTexts : Constructed(d, LinkBytes(d), <<>>)

NextValue == ReadValue

SpecValue == InitValue /\ [][NextValue]_vars

\* A text of decimal digits only, and the integer it writes.
IsUIntText(t) == t # <<>> /\ \A i \in 1..Len(t) : t[i] \in 48..57

RECURSIVE UIntOf(_)
UIntOf(t) == IF t = <<>> THEN 0 ELSE UIntOf(SubSeq(t, 1, Len(t) - 1)) * 10 + (t[Len(t)] - 48)

\* C3: at the start of "a b R", a and b unsigned integers, readValue
\* returns Link(a, b) and the position behind the R; when what follows a is
\* no unsigned integer followed by R it returns Number(a) and the position
\* right behind a.
C3_LinkOrNumberWithRollback ==
    res.op = "readValue" =>
        IF IsUIntText(doc.b) /\ doc.r = B("R")
        THEN /\ res.r.ok
             /\ res.r.val = Link(UIntOf(doc.a), UIntOf(doc.b))
             /\ res.r.pos = Len(doc.a) + Len(doc.sep) + Len(doc.b) + Len(doc.gap) + 1
        ELSE /\ res.r.ok
             /\ res.r.val = Number(UIntOf(doc.a), 1)
             /\ res.r.pos = Len(doc.a)

-----------------------------------------------------------------------------
(* SpecLiteral: readLiteralString at the "(" of "(" body, the body every   *)
(* byte string of up to MaxLit bytes over LitAlphabet and the texts of     *)
(* LitExamples.                                                            *)

ReadLiteralString ==
    /\ pc = "new"
    /\ pc' = "done"
    /\ res' = [op |-> "readLiteralString", r |-> readLiteralString(0)]
    /\ UNCHANGED <<mData, mSize, mPast, mXRefTable, mTrailerDict, mPagesCount,
                   parentXrefPos, err, hist, doc>>

LitAlphabet == { chBackslash, chLPar, chRPar, chn, ch0, 53, 51, 56, chCR, chLF }

LitExamples ==
    { B("\\n\\r\\t\\b\\f\\(\\)\\\\)"), B("\\0053)"), B("\\053)"), B("\\53)"),
      B("\\777)"), B("\\58)"), B("\\8)"), B("\\x(\\))y)z"), B("a\rb)"), B("a\r\nb)"),
      B("a\\\n\rb)") }

LitBodies ==
    UNION { [1..n -> LitAlphabet] : n \in 0..MaxLit } \cup LitExamples

InitLiteral == \E b \in LitBodies : Constructed([body |-> b], <<chLPar>> \o b, <<>>)

NextLiteral == ReadLiteralString

SpecLiteral == InitLiteral /\ [][NextLiteral]_vars

\* The escape table read on the bytes of the body.
IsOct(c) == c \in 48..55

RECURSIVE OctLen(_, _, _)
OctLen(body, i, n) ==
    IF n < 3 /\ i + n <= Len(body) /\ IsOct(body[i + n]) THEN OctLen(body, i, n + 1) ELSE n

RECURSIVE OctVal(_, _, _)
OctVal(body, i, n) ==
    IF n = 0 THEN 0 ELSE OctVal(body, i, n - 1) * 8 + (body[i + n - 1] - 48)

TableLetter(c) ==
    CASE c = 110 -> 10
      [] c = 114 -> 13
      [] c = 116 -> 9
      [] c = 98 -> 8
      [] c = 102 -> 12
      [] OTHER -> c

\* [kind |-> "data", data, pos]: the string ends, decoded to data, pos the
\* offset behind its ")"; "open": it does not end; "splice": a backslash
\* stands before an end-of-line, a row of the table no claim here reads.
RECURSIVE Decoded(_, _, _, _)
Decoded(body, i, level, out) ==
    IF i > Len(body) THEN [kind |-> "open"]
    ELSE IF body[i] \in {10, 13} THEN Decoded(body, i + 1, level, Append(out, 10))
    ELSE IF body[i] = 92
    THEN IF i = Len(body) THEN [kind |-> "open"]
         ELSE IF body[i + 1] \in {10, 13} THEN [kind |-> "splice"]
         ELSE IF IsOct(body[i + 1])
         THEN Decoded(body, i + 1 + OctLen(body, i + 1, 0), level,
                      Append(out, OctVal(body, i + 1, OctLen(body, i + 1, 0)) % 256))
         ELSE Decoded(body, i + 2, level, Append(out, TableLetter(body[i + 1])))
    ELSE IF body[i] = 40 THEN Decoded(body, i + 1, level + 1, Append(out, 40))
    ELSE IF body[i] = 41
    THEN IF level = 1 THEN [kind |-> "data", data |-> out, pos |-> i + 1]
         ELSE Decoded(body, i + 1, level - 1, Append(out, 41))
    ELSE Decoded(body, i + 1, level, Append(out, body[i]))

HasByte(body, set) == \E i \in 1..Len(body) : body[i] \in set

ReadAs(r, e) ==
    /\ e.kind = "data" => (r.ok /\ r.val = String(e.data, "literal") /\ r.pos = e.pos)
    /\ e.kind = "open" => ~r.ok

\* C4: on a body without a raw end-of-line byte readLiteralString decodes
\* the backslash sequences as the table says (the five letters, the
\* escaped parentheses and backslash, one to three octal digits as one
\* byte modulo 256, any other escaped byte kept) and ends the string at
\* the first unescaped ")" that takes the nesting level from 1 to 0.
C4_EscapeTable ==
    (res.op = "readLiteralString" /\ ~HasByte(doc.body, {10, 13})) =>
        ReadAs(res.r, Decoded(doc.body, 1, 1, <<>>))

C4_Witness ==
    /\ res.op = "readLiteralString"
    /\ doc.body = B("\\0053)")
    /\ res.r.ok
    /\ res.r.val.data = <<5, 51>>
    /\ res.r.pos = 7

\* C5: a bare end-of-line byte inside a literal string, LF or CR, puts a
\* line feed byte into the decoded string (read on the bodies that hold no
\* backslash, where every end-of-line byte is bare).
C5_BareEolIsLineFeed ==
    (res.op = "readLiteralString" /\ ~HasByte(doc.body, {92})) =>
        ReadAs(res.r, Decoded(doc.body, 1, 1, <<>>))

-----------------------------------------------------------------------------
(* SpecHex: readHexString at the "<" of "<" body.                          *)

ReadHexString ==
    /\ pc = "new"
    /\ pc' = "done"
    /\ res' = [op |-> "readHexString", r |-> readHexString(0)]
    /\ UNCHANGED <<mData, mSize, mPast, mXRefTable, mTrailerDict, mPagesCount,
                   parentXrefPos, err, hist, doc>>

HexAlphabet == { 49, 57, chA, chf, chSP, chLF, 103, chGT }

HexExamples ==
    { B("901FA3>"), B("901FA>"), B(" 4E6f\t76\r\n2>"), B("aBcDeF09>"), B("9 0 1>x"),
      B("90(1>"), B("901FA3") }

HexBodies ==
    UNION { [1..n -> HexAlphabet] : n \in 0..MaxHex } \cup HexExamples

InitHex == \E b \in HexBodies : Constructed([body |-> b], <<chLT>> \o b, <<>>)

NextHex == ReadHexString

SpecHex == InitHex /\ [][NextHex]_vars

DigitValue(c) == IF c \in 48..57 THEN c - 48 ELSE IF c \in 65..70 THEN c - 55 ELSE c - 87

IsHexText(c) == c \in (48..57) \cup (65..70) \cup (97..102)

\* White space as the reader's isspace has it.
IsWhite(c) == c \in {9, 10, 11, 12, 13, 32}

\* [kind |-> "data", digits, pos]: the digits h1..hn before the ">" and the
\* offset behind it; "error": the offending byte comes first; "open": no
\* ">" at all.
RECURSIVE HexDigits(_, _, _)
HexDigits(body, i, digits) ==
    IF i > Len(body) THEN [kind |-> "open"]
    ELSE IF body[i] = 62 THEN [kind |-> "data", digits |-> digits, pos |-> i + 1]
    ELSE IF IsHexText(body[i]) THEN HexDigits(body, i + 1, Append(digits, DigitValue(body[i])))
    ELSE IF IsWhite(body[i]) THEN HexDigits(body, i + 1, digits)
    ELSE [kind |-> "error"]

\* n/2 bytes for an even n, (n+1)/2 for an odd one, the last 16*hn.
HexBytes(h) ==
    [k \in 1..((Len(h) + 1) \div 2) |->
        IF 2 * k <= Len(h) THEN 16 * h[2 * k - 1] + h[2 * k] ELSE 16 * h[2 * k - 1]]

HexReadAs(r, e) ==
    /\ e.kind = "data" =>
          (r.ok /\ r.val = String(HexBytes(e.digits), "hex") /\ r.pos = e.pos)
    /\ e.kind = "error" => (~r.ok /\ r.err = "ParseError")

\* C6: over "<" h1..hn ">" with white space between the digits the data
\* are the bytes 16*h(2k-1)+h(2k), an odd last digit giving 16*hn, and the
\* position returned is the one behind the ">"; a byte that is neither a
\* hex digit nor white space before the ">" is a ParseError.
C6_HexPairs ==
    res.op = "readHexString" => HexReadAs(res.r, HexDigits(doc.body, 1, <<>>))

C6_Witness ==
    /\ res.op = "readHexString"
    /\ doc.body = B("901FA>")
    /\ res.r.ok
    /\ res.r.val.data = <<144, 31, 160>>
    /\ res.r.pos = 7

-----------------------------------------------------------------------------
(* SpecXRef: one xref section whose records are written in the shapes of   *)
(* XRefShapes; the first subsection names objects 1 and 2, the second      *)
(* starts at 2 (its record meets a number the table holds) or at 3.        *)

ReadXRefTable ==
    /\ pc = "new"
    /\ pc' = "done"
    /\ res' = [op |-> "readXRefTable", r |-> readXRefTable(doc.at, EmptyTable)]
    /\ UNCHANGED <<mData, mSize, mPast, mXRefTable, mTrailerDict, mPagesCount,
                   parentXrefPos, err, hist, doc>>

txObjA == B("1 0 obj\n(a)\nendobj\n")
txTrailerA == B("trailer\n<< /Size 4 >>\n")

\* 20-byte records: offset 9 is where the object of the file stands.
XRefShapes ==
    { B("0000000009 00000 n \n"),
      B("0000000000 65535 f \n"),
      B("0000000009 00001 f \n"),
      B("0000000000 00000 n \n"),
      B("         9     2 n\r\n"),
      B("           00007 n \n"),
      B("0000000009 00003 x \n"),
      B("0000000009000000 n \n") }

XSubText(sub) ==
    Dec(sub.start) \o <<chSP>> \o Dec(Len(sub.recs)) \o <<chLF>> \o Concat(sub.recs)

XSubsText(subs) == Concat([i \in 1..Len(subs) |-> XSubText(subs[i])])

XDoc(r1, r2, r3, start2) ==
    [subs |-> << [start |-> 1, recs |-> <<r1, r2>>], [start |-> start2, recs |-> <<r3>>] >>,
     at |-> Len(txHeader) + Len(txObjA)]

XDocs ==
    { XDoc(r1, r2, r3, s) : r1 \in XRefShapes, r2 \in XRefShapes, r3 \in XRefShapes,
                            s \in {2, 3} }

XRender(d) ==
    txHeader \o txObjA \o txXref \o XSubsText(d.subs) \o txTrailerA
    \o txStartxref \o Dec(d.at) \o txEof

\* The offset of the keyword trailer in the file of d.
XTrailerAt(d) == d.at + Len(txXref) + Len(XSubsText(d.subs))

InitXRef == \E d \in XDocs : Constructed(d, XRender(d), <<>>)

NextXRef ==
    \/ ReadXRefTable
    \/ LoadBegin
    \/ \E n \in 0..4 : GetObject(n)

SpecXRef == InitXRef /\ [][NextXRef]_vars

\* The record the file gives object number n: the one of the first
\* subsection that names it.
XSubNums(sub) == sub.start .. (sub.start + Len(sub.recs) - 1)

XNums(d) == UNION { XSubNums(d.subs[i]) : i \in 1..Len(d.subs) }

XFirstSub(d, n) ==
    d.subs[CHOOSE i \in 1..Len(d.subs) :
              /\ n \in XSubNums(d.subs[i])
              /\ \A j \in 1..(i - 1) : n \notin XSubNums(d.subs[j])]

XRecordOf(d, n) == XFirstSub(d, n).recs[n - XFirstSub(d, n).start + 1]

\* C11: getObject returns an empty object, and fails on nothing, when the
\* table has no entry for the number or the entry's offset is 0, which it
\* is for every Free entry; with any other offset readObject runs, which
\* shows as an exception or as a value in the object returned.
C11_EmptyWithoutOffset ==
    /\ \A n \in DOMAIN mXRefTable :
          mXRefTable[n].type = "Free" => mXRefTable[n].pos = 0
    /\ res.op = "getObject" =>
          IF res.arg \notin DOMAIN mXRefTable \/ mXRefTable[res.arg].pos = 0
          THEN res.obj = EmptyObject /\ err = NoErr
          ELSE err # NoErr \/ res.obj.value # Undefined

\* getObject of a number whose record is Free with 9 in the offset columns.
C11_Witness ==
    /\ res.op = "getObject"
    /\ res.arg \in XNums(doc)
    /\ XRecordOf(doc, res.arg) = B("0000000009 00001 f \n")
    /\ mXRefTable[res.arg].type = "Free"
    /\ res.obj = EmptyObject
    /\ err = NoErr

-----------------------------------------------------------------------------
(* SpecBool: readValue at the first byte of a word that starts with t or   *)
(* f, followed by a delimiter and what comes after it, or by the end of    *)
(* the buffer.                                                             *)

BoolWords ==
    { kwTrue, kwFalse, B("tru"), B("fals"), B("truex"), B("falsey"), B("t"), B("f"),
      B("tRue"), B("false1"), B("truefalse"), B("ftrue") }

BoolTails ==
    { B(" \nendobj\n"), B("\nendobj\n"), B(" ]"), B("/A 1 >>"), B(">>\n"), B(" "),
      B("]"), <<>> }

BoolTexts == { [word |-> w, tail |-> t] : w \in BoolWords, t \in BoolTails }

InitBool == \E d \in BoolTexts : Constructed(d, d.word \o d.tail, <<>>)

NextBool == ReadValue

SpecBool == InitBool /\ [][NextBool]_vars

\* C12: at a t or an f readValue returns Bool(true) and the position 4
\* bytes on when the word is true, Bool(false) and the position 5 bytes on
\* when it is false, and throws a ParseError for every other word.
C12_BoolWords ==
    res.op = "readValue" =>
        IF doc.word = kwTrue
        THEN res.r.ok /\ res.r.val = Bool(TRUE) /\ res.r.pos = 4
        ELSE IF doc.word = kwFalse
        THEN res.r.ok /\ res.r.val = Bool(FALSE) /\ res.r.pos = 5
        ELSE ~res.r.ok /\ res.r.err = "ParseError"

-----------------------------------------------------------------------------
(* The bytes load reads before it parses an xref segment: the indices at   *)
(* which the header search, the backward search for startxref and the scan *)
(* of the integer behind it dereference mData.                             *)

\* strncmp(mData + pos, str, len) reads up to the first byte that differs.
RECURSIVE StrNCmpReads(_, _, _)
StrNCmpReads(pos, str, k) ==
    IF k > Len(str) THEN {}
    ELSE IF Mem(pos + k - 1) # str[k] THEN {pos + k - 1}
    ELSE {pos + k - 1} \cup StrNCmpReads(pos, str, k + 1)

RECURSIVE IndexOfReads(_, _)
IndexOfReads(str, i) ==
    IF i < IndexOfBound(Len(str))
    THEN StrNCmpReads(i, str, 1)
         \cup (IF StrNCmpEq(i, str, 1) THEN {} ELSE IndexOfReads(str, i + 1))
    ELSE {}

RECURSIVE IndexOfBackReads(_, _)
IndexOfBackReads(str, i) ==
    IF i > 0
    THEN StrNCmpReads(i, str, 1)
         \cup (IF StrNCmpEq(i, str, 1) THEN {} ELSE IndexOfBackReads(str, i - 1))
    ELSE {}

\* The index of the byte that ends the scan of strtoul: the first byte
\* behind the white space and the sign that is no digit.
ScanStop(p0) == ScanDigits(IF TakesSign(Mem(p0)) THEN p0 + 1 ELSE p0, 0).end

\* strtoul reads every byte from pos to the one that ends its scan.
StrToULReads(pos) == pos .. ScanStop(SkipAnySpace(pos))

HeaderReads == IndexOfReads(kwPdf, 0)

StartXRefReads == IndexOfBackReads(kwStartxref, mSize - 1 - Len(kwStartxref) + 1)

XRefPosReads(startXRef) ==
    IF startXRef < 0 THEN {} ELSE StrToULReads(startXRef + Len(kwStartxref))

LoadScanReads ==
    HeaderReads
    \cup (IF ~HeaderOk THEN {}
          ELSE StartXRefReads \cup XRefPosReads(indexOfBack(kwStartxref, mSize - 1)))

\* C13: every byte the reader dereferences lies at an index in [0, mSize);
\* read here on the bytes load dereferences on its way to the offset of
\* the first xref segment, the integer scan behind startxref among them.
C13_ReadsInsideBuffer ==
    res.op = "load" => \A i \in LoadScanReads : i >= 0 /\ i < mSize

-----------------------------------------------------------------------------
(* SpecPrev: load of chains of up to MaxRev revisions whose trailers name  *)
(* by /Prev whatever they like: prevs[k] is 0 for a trailer without /Prev, *)
(* j for the offset of revision j (k itself, an older or a newer one) and  *)
(* -1 for an offset inside the header.  /Prev is written five digits wide. *)

PrevRevText(objs, rev, hasPrev, prev) ==
    txXref \o Concat([i \in 1..Len(rev.subs) |-> SubText(objs, rev.subs[i])])
    \o txTrailerOpen \o TrailerText(rev.trailer)
    \o (IF hasPrev THEN txPrev \o Pad(prev, 5) ELSE <<>>) \o txTrailerClose

RECURSIVE PrevRevOffset(_, _)
PrevRevOffset(d, k) ==
    IF k = 1 THEN BodyEnd(d.objs)
    ELSE PrevRevOffset(d, k - 1)
         + Len(PrevRevText(d.objs, d.revs[k - 1], d.prevs[k - 1] # 0, 0))

\* An offset at which no xref section stands.
StrayOffset == Len(kwPdf) - 2

PrevTarget(d, t) == IF t = -1 THEN StrayOffset ELSE IF t = 0 THEN 0 ELSE PrevRevOffset(d, t)

PrevRender(d) ==
    txHeader \o Concat(d.objs)
    \o Concat([k \in 1..Len(d.revs) |->
                 PrevRevText(d.objs, d.revs[k], d.prevs[k] # 0, PrevTarget(d, d.prevs[k]))])
    \o txStartxref \o Dec(PrevRevOffset(d, Len(d.revs))) \o txEof

PrevDoc(prevs) ==
    [objs |-> << txObj1, PagesText(42), PagesText(7) >>,
     revs |-> [k \in DOMAIN prevs |->
                 [subs |-> ChainSubs(((k - 1) % 4) + 1, k),
                  trailer |-> ChainTrailer(k, FALSE)]],
     prevs |-> prevs]

PrevDocs ==
    { PrevDoc(prevs) : prevs \in UNION { [1..n -> {-1} \cup (0..n)] : n \in 1..MaxRev } }

InitPrev == \E d \in PrevDocs : Constructed(d, PrevRender(d), <<>>)

NextPrev ==
    \/ LoadBegin
    \/ LoadPrev

SpecPrev == InitPrev /\ [][NextPrev]_vars

\* The offsets at which load has parsed an xref segment.
SegsParsed == { hist.segs[i] : i \in 1..Len(hist.segs) }

\* C14: load terminates whatever the /Prev entries name.  The buffer does
\* not change and the offset a turn of the loop goes on to depends on the
\* offset it parses alone, so a walk that is about to parse an offset it
\* has parsed already repeats itself for ever: a load that terminates is
\* never in its loop with such an offset.
C14_PrevWalkEnds ==
    pc = "walking" => parentXrefPos \notin SegsParsed

-----------------------------------------------------------------------------
(* SpecObject: readObject at offset 0 of "a b kw" followed by a body, by   *)
(* endobj and, in half of the buffers, by another object.                  *)

ReadObject ==
    /\ pc = "new"
    /\ pc' = "done"
    /\ res' = [op |-> "readObject", r |-> readObject(0, {})]
    /\ UNCHANGED <<mData, mSize, mPast, mXRefTable, mTrailerDict, mPagesCount,
                   parentXrefPos, err, hist, doc>>

ObjFirsts == { B("7"), B("12"), B("x") }
ObjSeps == { B(" "), B("\n") }
ObjSeconds == { B("0"), B("3"), B("x") }
ObjGaps == { B(" "), <<>> }
ObjKeywords == { kwObj, B("obx"), B("ob"), B("R"), <<>> }
ObjBodies ==
    { [text |-> B("<< /A 1 >>"), val |-> Dict(DictInsert(EmptyMap, B("A"), Number(1, 1)))],
      [text |-> B("(a)"), val |-> String(B("a"), "literal")],
      [text |-> B("42"), val |-> Number(42, 1)] }
ObjNexts == { <<>>, B("8 0 obj\n(b)\nendobj\n") }

ObjTexts ==
    { [a |-> a, sep |-> s, b |-> b, gap |-> g, kw |-> k, body |-> y, next |-> n] :
        a \in ObjFirsts, s \in ObjSeps, b \in ObjSeconds, g \in ObjGaps,
        k \in ObjKeywords, y \in ObjBodies, n \in ObjNexts }

ObjBytes(d) ==
    d.a \o d.sep \o d.b \o d.gap \o d.kw \o <<chLF>> \o d.body.text \o txEndobj \o d.next

InitObject == \E d \in ObjTexts : Constructed(d, ObjBytes(d), <<>>)

NextObject == ReadObject

SpecObject == InitObject /\ [][NextObject]_vars

\* C15: readObject throws a ParseError when one of the two leading
\* unsigned integers cannot be read or when obj does not stand right
\* behind the generation number and its white space; it parses no body
\* that stands elsewhere.  Where the integers and obj are in place the
\* object returned holds them and the body behind obj.
C15_ObjKeywordInPlace ==
    res.op = "readObject" =>
        IF IsUIntText(doc.a) /\ IsUIntText(doc.b) /\ doc.kw = kwObj
        THEN /\ res.r.ok
             /\ res.r.obj.objNum = UIntOf(doc.a)
             /\ res.r.obj.genNum = UIntOf(doc.b)
             /\ res.r.obj.value = doc.body.val
        ELSE /\ ~res.r.ok
             /\ res.r.err = "ParseError"

-----------------------------------------------------------------------------
(* The table and the position a section of SpecXRef stands for when every  *)
(* record is read by its columns: 0-9 the offset, 11-15 the generation,    *)
(* 17 the status.                                                          *)

RECURSIVE ColumnBlanks(_, _)
ColumnBlanks(s, i) ==
    IF i <= Len(s) /\ s[i] \in {9, 10, 11, 12, 13, 32} THEN ColumnBlanks(s, i + 1) ELSE i

RECURSIVE ColumnDigits(_, _, _)
ColumnDigits(s, i, acc) ==
    IF i <= Len(s) /\ s[i] \in 48..57 THEN ColumnDigits(s, i + 1, acc * 10 + (s[i] - 48))
    ELSE acc

\* The integer the bytes of a column group write, 0 when they hold none.
ColumnInt(s) == ColumnDigits(s, ColumnBlanks(s, 1), 0)

ColumnEntry(rec, n) ==
    IF rec[18] = 110
    THEN XRefEntry(ColumnInt(SubSeq(rec, 1, 10)), n, ColumnInt(SubSeq(rec, 12, 16)), "Used")
    ELSE XRefEntry(0, n, ColumnInt(SubSeq(rec, 12, 16)), "Free")

ColumnTable(d) == [n \in XNums(d) |-> ColumnEntry(XRecordOf(d, n), n)]

\* C16: every record of a subsection moves the cursor on by 20 bytes, be
\* its entry inserted or skipped; an inserted entry takes its offset, its
\* generation and its status from columns 0-9, 11-15 and 17 of its own
\* record, Used for an n in column 17 and Free with offset 0 otherwise;
\* the loop ends, and returns the position, where trailer is the next
\* token.
C16_RecordsByColumns ==
    res.op = "readXRefTable" =>
        /\ res.r.ok
        /\ res.r.pos = XTrailerAt(doc)
        /\ res.r.table = ColumnTable(doc)

=============================================================================
